---- MODULE Spec2Model ----
(***************************************************************************)
(* Event fan-out of vk_botting.client.Client: the one-shot waiters that    *)
(* wait_for registers in Client._listeners, the waiter pass and the        *)
(* handler pass of Client.dispatch, and the tasks _schedule_event creates. *)
(***************************************************************************)
EXTENDS Integers, Sequences, FiniteSets, TLC

\* ------------------------------------------------------------------------
\* Bounds
\* ------------------------------------------------------------------------
MaxWaiters == 2       \* number of wait_for calls in one run
MaxDispatch == 2      \* number of dispatch calls in one run
MaxPolls == 3         \* number of longpoll tasks the loop creates in one run
MaxNegotiations == 3  \* number of groups.getLongPollServer requests in one run

WaiterIds == 1..MaxWaiters

\* ------------------------------------------------------------------------
\* Values
\* ------------------------------------------------------------------------
\* Event names are strings, kept as sequences of characters so that
\* str.lower() and the 'on_' + event concatenation are computed.
message_new == <<"m", "e", "s", "s", "a", "g", "e", "_", "n", "e", "w">>
Message_New == <<"M", "e", "s", "s", "a", "g", "e", "_", "N", "e", "w">>
ready == <<"r", "e", "a", "d", "y">>
EventNames == {message_new, Message_New, ready}

\* The dispatch calls of a run, <<event, args>>: 'ready' without arguments as
\* _run emits it, 'message_new' with the message as handle_message emits it,
\* the same event under another letter-casing, and a call with two arguments.
Calls == {<<ready, <<>>>>,
          <<message_new, <<"hi">>>>,
          <<message_new, <<"hello">>>>,
          <<Message_New, <<"hello">>>>,
          <<message_new, <<"hello", "hi">>>>}

\* The check argument of wait_for: None, or the predicate of the docstring
\* example (def check(m): return m.text == 'hello').
None == "None"
Checks == {None, "is_hello"}

\* The value a future is resolved with: None, one argument, or the tuple.
NoValue == [none |-> TRUE]
SoleValue(a) == [value |-> a]
TupleValue(args) == [tuple |-> args]

\* str.lower() on the characters that occur in EventNames
lower_char(c) ==
    CASE c = "M" -> "m"
      [] c = "N" -> "n"
      [] OTHER -> c

\* (variant: the name is stored as given)
lower_identity(s) == s

lower(s) == [i \in 1..Len(s) |-> lower_char(s[i])]

on_ == <<"o", "n", "_">>

\* The methods named on_<event> that the client (a subclass of Client)
\* defines; getattr finds these and no others.
bound_handlers == {on_ \o message_new}

\* ------------------------------------------------------------------------
\* State
\* ------------------------------------------------------------------------
VARIABLES
    _listeners,   \* Client._listeners: dict  event name -> list of entries
    future,       \* the future of each entry (the entry is named by its id)
    condition,    \* the predicate of each entry
    check,        \* the check argument each wait_for call was given
    waited,       \* the event argument of the latest wait_for call
    handle,       \* the coroutine wait_for returned, per entry
    tasks,        \* the _ClientEventTask objects created so far
    last,         \* the latest dispatch call: its arguments and what it did
    ndispatch,    \* number of dispatch calls so far
    runs,         \* where the coroutine _run_event of each task stands
    invocations,  \* the handler calls  coro(*args)  made so far, in order
    on_error_calls, \* the calls of on_error made so far: <<task, call>>, in order
    pc,           \* where the coroutine _run stands
    ts,           \* the local ts of _run (0: not yet assigned)
    updates,      \* the local updates of _run
    update,       \* the position of  for update in updates
    caught,       \* the exception the except clause of the cycle caught last
    key,          \* Client.key (0: None)
    server,       \* Client.server (0: None)
    force,        \* Client.force
    polls,        \* the tasks created from self.longpoll(ts), in order
    srv_ts,       \* the remote side: number of events that have occurred
    stream,       \* the remote side: the events, in order
    negotiations, \* the groups.getLongPollServer requests answered so far
    handled,      \* the envelopes handed to handle_update so far, in order
    emitted,      \* the dispatch calls _run and handle_update made, in order
    lp_pc,        \* where one call of longpoll, followed attempt by attempt, stands
    lp_ts,        \* the ts argument of that call
    lp_result,    \* what that call returned or raised
    tries,        \* the loop variable of general_request
    slept,        \* the arguments of asyncio.sleep in general_request, in order
    errors        \* the exceptions the attempts of general_request raised, in order

\* The state of the supervised tasks beside the task objects themselves
task_vars == <<runs, invocations, on_error_calls>>

\* The state of one call of longpoll and of the general_request inside it
request_vars == <<lp_pc, lp_ts, lp_result, tries, slept, errors>>

\* The state of the ingestion loop, of its polls and of the remote side
loop_vars == <<pc, ts, updates, update, caught, key, server, force, polls, srv_ts, stream,
               negotiations, handled, emitted, request_vars>>

vars == <<_listeners, future, condition, check, waited, handle, tasks, last, ndispatch,
          task_vars, loop_vars>>

\* What the waiter registry and dispatch leave alone
others == <<task_vars, loop_vars>>

TaskIds == 1..MaxDispatch

NotRun == [handler |-> "none", hook |-> "none", exception |-> None]

NoFuture == [state |-> "NONE", result |-> NoValue, exception |-> None]
PendingFuture == [state |-> "PENDING", result |-> NoValue, exception |-> None]

\* The client as __init__ leaves it, before run() has started _run
InitClient ==
    /\ _listeners = <<>>
    /\ future = [w \in WaiterIds |-> NoFuture]
    /\ condition = [w \in WaiterIds |-> None]
    /\ check = [w \in WaiterIds |-> None]
    /\ waited = <<>>
    /\ handle = [w \in WaiterIds |-> "none"]
    /\ tasks = <<>>
    /\ last = [event |-> <<>>, args |-> <<>>, evaluated |-> <<>>,
               removed |-> <<>>, raised |-> FALSE]
    /\ ndispatch = 0
    /\ runs = [i \in TaskIds |-> NotRun]
    /\ invocations = <<>>
    /\ on_error_calls = <<>>
    /\ ts = 0 /\ updates = <<>> /\ update = 0 /\ caught = None
    /\ key = 0 /\ server = 0
    /\ polls = <<>>
    /\ srv_ts = 0
    /\ negotiations = <<>> /\ handled = <<>> /\ emitted = <<>>
    /\ lp_result = [kind |-> "none", ts |-> 0, updates |-> <<>>, exception |-> None]
    /\ tries = 0 /\ slept = <<>> /\ errors = <<>>

Init ==
    /\ InitClient
    /\ pc = "idle"
    /\ lp_pc = "idle" /\ lp_ts = 0
    /\ force = FALSE
    /\ stream = <<>>

\* ------------------------------------------------------------------------
\* Futures (asyncio.Future)
\* ------------------------------------------------------------------------
\* (variant: no future is ever seen as cancelled)
cancelled_never(f) == FALSE

cancelled(f) == f.state = "CANCELLED"

\* set_result / set_exception raise InvalidStateError on a future that is
\* not pending; ok tells whether the call returned.
set_result(f, v) ==
    IF f.state = "PENDING"
    THEN [ok |-> TRUE, f |-> [state |-> "FINISHED", result |-> v, exception |-> None]]
    ELSE [ok |-> FALSE, f |-> f]

\* (variant: the error is stored as the result of the future)
set_exception_as_result(f, exc) ==
    IF f.state = "PENDING"
    THEN [ok |-> TRUE, f |-> [state |-> "FINISHED", result |-> SoleValue(exc), exception |-> None]]
    ELSE [ok |-> FALSE, f |-> f]

set_exception(f, exc) ==
    IF f.state = "PENDING"
    THEN [ok |-> TRUE, f |-> [state |-> "FINISHED", result |-> NoValue, exception |-> exc]]
    ELSE [ok |-> FALSE, f |-> f]

\* Future.cancel(): a no-op on a future that is already done
cancel(f) ==
    IF f.state = "PENDING"
    THEN [state |-> "CANCELLED", result |-> NoValue, exception |-> None]
    ELSE f

\* ------------------------------------------------------------------------
\* Predicates
\* ------------------------------------------------------------------------
\* condition(*args): "True", "False", or the name of the exception raised.
\* _check accepts any arguments; is_hello takes exactly one positional
\* argument, so any other arity is a TypeError.
call_condition(c, args) ==
    CASE c = "_check" -> "True"
      [] c = "is_hello" ->
            IF Len(args) # 1 THEN "TypeError"
            ELSE IF args[1] = "hello" THEN "True" ELSE "False"

\* ------------------------------------------------------------------------
\* wait_for
\* ------------------------------------------------------------------------
registered == {w \in WaiterIds : future[w].state # "NONE"}

\* (variant: the entry is not appended when wait_for is called)
listeners_append_deferred(listeners, w) == listeners

\* wait_for: listeners.append((future, check)), in the call itself: wait_for
\* is a plain def, its body runs before the handle is returned
listeners_append(listeners, w) == Append(listeners, w)

wait_for(event, chk) ==
    /\ Cardinality(registered) < MaxWaiters
    /\ LET w == Cardinality(registered) + 1
           ev == lower(event)
           listeners == IF ev \in DOMAIN _listeners THEN _listeners[ev] ELSE <<>>
       IN  /\ future' = [future EXCEPT ![w] = PendingFuture]
           /\ check' = [check EXCEPT ![w] = chk]
           /\ condition' = [condition EXCEPT ![w] = IF chk = None THEN "_check" ELSE chk]
           /\ waited' = event
           /\ handle' = [handle EXCEPT ![w] = "created"]
           /\ _listeners' = [k \in DOMAIN _listeners \cup {ev} |->
                                IF k = ev THEN listeners_append(listeners, w) ELSE _listeners[k]]
    /\ UNCHANGED <<tasks, last, ndispatch, others>>

\* ------------------------------------------------------------------------
\* The coroutine asyncio.wait_for(future, timeout) that wait_for returns
\* ------------------------------------------------------------------------
\* The caller awaits the handle: the timeout starts to run only now.
await_handle(w) ==
    /\ handle[w] = "created"
    /\ handle' = [handle EXCEPT ![w] = "awaiting"]
    /\ UNCHANGED <<_listeners, future, condition, check, waited, tasks, last, ndispatch, others>>

\* The timeout elapses before the future is done: asyncio.wait_for cancels
\* the future and raises TimeoutError.  Nothing touches Client._listeners.
timeout_elapses(w) ==
    /\ handle[w] = "awaiting"
    /\ future[w].state = "PENDING"
    /\ future' = [future EXCEPT ![w] = cancel(@)]
    /\ handle' = [handle EXCEPT ![w] = "TimeoutError"]
    /\ UNCHANGED <<_listeners, condition, check, waited, tasks, last, ndispatch, others>>

\* The owner cancels its pending wait: the cancellation reaches the future
\* and the awaiting caller gets CancelledError.
cancel_wait(w) ==
    /\ handle[w] = "awaiting"
    /\ future[w].state = "PENDING"
    /\ future' = [future EXCEPT ![w] = cancel(@)]
    /\ handle' = [handle EXCEPT ![w] = "CancelledError"]
    /\ UNCHANGED <<_listeners, condition, check, waited, tasks, last, ndispatch, others>>

\* ------------------------------------------------------------------------
\* dispatch
\* ------------------------------------------------------------------------
\* (variant: the index is taken as zero-based)
del_index_zero_based(lst, idx) == SubSeq(lst, 1, idx) \o SubSeq(lst, idx + 2, Len(lst))

\* del listeners[idx]
del_index(lst, idx) == SubSeq(lst, 1, idx - 1) \o SubSeq(lst, idx + 1, Len(lst))

\* for idx in reversed(removed): del listeners[idx]
RECURSIVE del_reversed(_, _)
del_reversed(lst, removed) ==
    IF removed = <<>> THEN lst
    ELSE del_reversed(del_index(lst, removed[Len(removed)]),
                      SubSeq(removed, 1, Len(removed) - 1))

\* (variant: the tuple of arguments whatever its length)
result_for_always_tuple(args) == TupleValue(args)

\* The value set_result is called with, by len(args)
result_for(args) ==
    IF Len(args) = 0 THEN NoValue
    ELSE IF Len(args) = 1 THEN SoleValue(args[1])
    ELSE TupleValue(args)

\* (variant: a cancelled entry is skipped and left in the list)
skip_cancelled_keep(st, i) == st

\* if future.cancelled(): removed.append(i); continue
skip_cancelled(st, i) == [st EXCEPT !.removed = Append(@, i)]

\* One iteration of  for i, (future, condition) in enumerate(listeners).
\* st: the futures, the removed indices, the entries whose predicate was
\* called, and whether an exception has left the loop.
waiter_step(lst, args, i, st) ==
    LET w == lst[i]
        f == st.future[w]
    IN  IF cancelled(f)
        THEN skip_cancelled(st, i)
        ELSE LET result == call_condition(condition[w], args)
                 st1 == [st EXCEPT !.evaluated = Append(@, w)]
             IN  IF result \notin {"True", "False"}
                 THEN LET r == set_exception(f, result)
                      IN  IF r.ok
                          THEN [st1 EXCEPT !.future[w] = r.f, !.removed = Append(@, i)]
                          ELSE [st1 EXCEPT !.raised = TRUE]
                 ELSE IF result = "True"
                 THEN LET r == set_result(f, result_for(args))
                      IN  IF r.ok
                          THEN [st1 EXCEPT !.future[w] = r.f, !.removed = Append(@, i)]
                          ELSE [st1 EXCEPT !.raised = TRUE]
                 ELSE st1

\* (variant: the loop ends at the first entry it removes)
RECURSIVE waiter_pass_first_only(_, _, _, _)
waiter_pass_first_only(lst, args, i, st) ==
    IF i > Len(lst) \/ st.raised \/ st.removed # <<>> THEN st
    ELSE waiter_pass_first_only(lst, args, i + 1, waiter_step(lst, args, i, st))

RECURSIVE waiter_pass(_, _, _, _)
waiter_pass(lst, args, i, st) ==
    IF i > Len(lst) \/ st.raised THEN st
    ELSE waiter_pass(lst, args, i + 1, waiter_step(lst, args, i, st))

\* self._listeners.pop(event)
pop(d, k) == [x \in DOMAIN d \ {k} |-> d[x]]

\* (variant: the removed entries are kept unless all are removed)
purge_no_del(d, event, lst, removed) ==
    IF Len(removed) = Len(lst) THEN pop(d, event) ELSE d

\* (variant: the name is dropped as soon as one entry is removed)
purge_pop_any(d, event, lst, removed) ==
    IF Len(removed) > 0 THEN pop(d, event) ELSE d

\* (variant: the removed entries are deleted and the name is never dropped)
purge_del_only(d, event, lst, removed) ==
    [d EXCEPT ![event] = del_reversed(lst, removed)]

\* if len(removed) == len(listeners): pop(event), else delete the removed
purge(d, event, lst, removed) ==
    IF Len(removed) = Len(lst)
    THEN pop(d, event)
    ELSE [d EXCEPT ![event] = del_reversed(lst, removed)]

\* (variant: the task is created without the arguments)
_schedule_event_no_args(created, method, args) ==
    Append(created, [event_name |-> method, args |-> <<>>, state |-> "PENDING"])

\* _schedule_event: one more task wrapping _run_event(coro, event_name, *args)
_schedule_event(created, method, args) ==
    Append(created, [event_name |-> method, args |-> args, state |-> "PENDING"])

\* The body of dispatch: the waiter pass, then the handler pass
do_dispatch(event, args) ==
    /\ ndispatch' = ndispatch + 1
    /\ LET method == on_ \o event
           listeners == IF event \in DOMAIN _listeners THEN _listeners[event] ELSE <<>>
           st0 == [future |-> future, removed |-> <<>>, evaluated |-> <<>>, raised |-> FALSE]
           st == IF Len(listeners) > 0 THEN waiter_pass(listeners, args, 1, st0) ELSE st0
       IN  /\ future' = st.future
           /\ last' = [event |-> event, args |-> args, evaluated |-> st.evaluated,
                       removed |-> st.removed, raised |-> st.raised]
           /\ _listeners' = IF Len(listeners) > 0 /\ ~st.raised
                            THEN purge(_listeners, event, listeners, st.removed)
                            ELSE _listeners
           /\ tasks' = IF ~st.raised /\ method \in bound_handlers
                       THEN _schedule_event(tasks, method, args)
                       ELSE tasks
    /\ UNCHANGED <<condition, check, waited, handle>>

\* A call of dispatch by application code or by the client itself
dispatch(event, args) ==
    /\ ndispatch < MaxDispatch
    /\ do_dispatch(event, args)
    /\ UNCHANGED others

Next ==
    \/ \E event \in EventNames, chk \in Checks : wait_for(event, chk)
    \/ \E w \in WaiterIds : await_handle(w)
    \/ \E w \in WaiterIds : timeout_elapses(w)
    \/ \E w \in WaiterIds : cancel_wait(w)
    \/ \E c \in Calls : dispatch(c[1], c[2])

Spec == Init /\ [][Next]_vars

\* ------------------------------------------------------------------------
\* _run_event: the coroutine a task of _schedule_event runs
\* ------------------------------------------------------------------------
\* What the registry, dispatch and the tasks' runs leave alone
waiter_vars == <<_listeners, future, condition, check, waited, handle>>

\* (variant: on_error is given the arguments only)
on_error_call_no_name(t) == [event_method |-> <<>>, args |-> t.args]

\* self.on_error(event_name, *args, **kwargs)
on_error_call(t) == [event_method |-> t.event_name, args |-> t.args]

\* (variant: a cancelled handler is reported like a failed one)
after_cancelled_reported(calls, i, t) == Append(calls, <<i, on_error_call(t)>>)

\* except asyncio.CancelledError: pass
after_cancelled(calls, i, t) == calls

\* (variant: the error of on_error is dropped)
hook_error_swallowed(exc) == None

\* An exception of on_error other than CancelledError leaves _run_event and
\* becomes the exception of the task.
hook_error(exc) == exc

\* The event loop runs the task for the first time: _run_event calls
\* coro(*args) and awaits it.
_run_event_start(i) ==
    /\ i \in 1..Len(tasks) /\ i \in TaskIds
    /\ tasks[i].state = "PENDING" /\ runs[i].handler = "none"
    /\ runs' = [runs EXCEPT ![i].handler = "running"]
    /\ invocations' = Append(invocations, [task |-> i, coro |-> tasks[i].event_name,
                                           args |-> tasks[i].args])
    /\ UNCHANGED <<waiter_vars, tasks, last, ndispatch, on_error_calls, loop_vars>>

\* The handler returns: _run_event returns and the task is done.
handler_returns(i) ==
    /\ i \in 1..Len(tasks) /\ i \in TaskIds
    /\ tasks[i].state = "PENDING" /\ runs[i].handler = "running"
    /\ runs' = [runs EXCEPT ![i].handler = "returned"]
    /\ tasks' = [tasks EXCEPT ![i].state = "FINISHED"]
    /\ UNCHANGED <<waiter_vars, last, ndispatch, invocations, on_error_calls, loop_vars>>

\* The handler raises an Exception: _run_event calls on_error and awaits it.
handler_raises(i) ==
    /\ i \in 1..Len(tasks) /\ i \in TaskIds
    /\ tasks[i].state = "PENDING" /\ runs[i].handler = "running"
    /\ runs' = [runs EXCEPT ![i].handler = "raised", ![i].hook = "running"]
    /\ on_error_calls' = Append(on_error_calls, <<i, on_error_call(tasks[i])>>)
    /\ UNCHANGED <<waiter_vars, tasks, last, ndispatch, invocations, loop_vars>>

\* on_error returns: _run_event returns and the task is done.
on_error_returns(i) ==
    /\ i \in 1..Len(tasks) /\ i \in TaskIds
    /\ tasks[i].state = "PENDING" /\ runs[i].hook = "running"
    /\ runs' = [runs EXCEPT ![i].hook = "returned"]
    /\ tasks' = [tasks EXCEPT ![i].state = "FINISHED"]
    /\ UNCHANGED <<waiter_vars, last, ndispatch, invocations, on_error_calls, loop_vars>>

\* on_error raises an Exception: only CancelledError is caught around it.
on_error_raises(i) ==
    /\ i \in 1..Len(tasks) /\ i \in TaskIds
    /\ tasks[i].state = "PENDING" /\ runs[i].hook = "running"
    /\ runs' = [runs EXCEPT ![i].hook = "raised", ![i].exception = hook_error("Exception")]
    /\ tasks' = [tasks EXCEPT ![i].state = "FINISHED"]
    /\ UNCHANGED <<waiter_vars, last, ndispatch, invocations, on_error_calls, loop_vars>>

\* The task is cancelled from outside.  Before its first run the task ends
\* cancelled without calling anything; inside the handler or inside on_error
\* the CancelledError is caught and _run_event returns.
cancel_task(i) ==
    /\ i \in 1..Len(tasks) /\ i \in TaskIds
    /\ tasks[i].state = "PENDING"
    /\ IF runs[i].handler = "none"
       THEN /\ tasks' = [tasks EXCEPT ![i].state = "CANCELLED"]
            /\ UNCHANGED <<runs, on_error_calls>>
       ELSE /\ tasks' = [tasks EXCEPT ![i].state = "FINISHED"]
            /\ IF runs[i].handler = "running"
               THEN /\ runs' = [runs EXCEPT ![i].handler = "cancelled"]
                    /\ on_error_calls' = after_cancelled(on_error_calls, i, tasks[i])
               ELSE /\ runs' = [runs EXCEPT ![i].hook = "cancelled"]
                    /\ UNCHANGED on_error_calls
    /\ UNCHANGED <<waiter_vars, last, ndispatch, invocations, loop_vars>>

\* Events are dispatched and the tasks of their handlers run
NextTasks ==
    \/ \E c \in Calls : dispatch(c[1], c[2])
    \/ \E i \in TaskIds : _run_event_start(i)
    \/ \E i \in TaskIds : handler_returns(i)
    \/ \E i \in TaskIds : handler_raises(i)
    \/ \E i \in TaskIds : on_error_returns(i)
    \/ \E i \in TaskIds : on_error_raises(i)
    \/ \E i \in TaskIds : cancel_task(i)

SpecTasks == Init /\ [][NextTasks]_vars

\* The event loop runs every task that is ready; how long a handler or
\* on_error stays suspended is up to them.
SpecTasksFair == SpecTasks /\ \A i \in TaskIds : WF_vars(_run_event_start(i))

\* ------------------------------------------------------------------------
\* The ingestion loop: Client._run, Client.longpoll, Client.get_longpoll_server
\* and Client.handle_update, with the remote side they talk to
\* ------------------------------------------------------------------------

\* What the loop and its polls leave alone beside what dispatch writes
client_vars == <<condition, check, waited, handle, task_vars, request_vars>>

\* The text of a message_new update whose object has no 'message' key (the
\* shape the long-poll API sends before version 5.103, about which
\* print_warnings only warns): update['object']['message'] raises KeyError.
malformed == "malformed"

\* The events of the remote side, in the order they occur
Streams == {<<"hi", "hello", "hi">>, <<"hi", malformed, "hello">>}

\* The answers to groups.getLongPollServer ("error": another error; "none":
\* no answer, general_request gave up after its attempts and returned None)
Outcomes == {"ok", "error 100", "error", "none"}

\* The answers to a_check ("none": general_request gave up and returned None)
Responses == {"ok", "failed", "none"}

\* The update the remote side sends for its n-th event
envelope(n) == [id |-> n, type |-> message_new, text |-> stream[n]]

\* Another type of update, one of those handle_update looks up in extra_events
message_reply == <<"m", "e", "s", "s", "a", "g", "e", "_", "r", "e", "p", "l", "y">>

\* Client.extra_events as __init__ leaves it
extra_events == {}

\* What handle_update does with an update, extra being self.extra_events:
\* it raises, it calls dispatch, or it returns without a call
NoCall(kind) == [kind |-> kind, event |-> <<>>, args |-> <<>>]

\* (variant: every update is dispatched under its type)
handle_update_does_always(u, extra) ==
    IF u.text = malformed THEN NoCall("raise")
    ELSE [kind |-> "dispatch", event |-> u.type, args |-> <<u.text>>]

handle_update_does(u, extra) ==
    IF u.type = message_new
    THEN IF u.text = malformed THEN NoCall("raise")
         ELSE [kind |-> "dispatch", event |-> message_new, args |-> <<u.text>>]
    ELSE IF u.type = message_reply /\ (on_ \o message_reply) \in extra
    THEN [kind |-> "dispatch", event |-> u.type, args |-> <<u.text>>]
    ELSE NoCall("skip")

\* The updates between two positions of the remote side
batch(a, b) == [j \in 1..(b - a) |-> envelope(a + j)]

\* The task _run holds in lp: the one it created last
lp == Len(polls)

\* _run executes between two awaits: nothing else runs meanwhile
running == pc \in {"ready", "while", "for"}

\* What get_longpoll_server does with an answer: it returns ts, raises, or
\* (force mode, error 100) enables long polling and calls itself again; on
\* None vk_request raises AttributeError at res.get
get_longpoll_server(outcome) ==
    IF outcome = "error 100"
    THEN IF force THEN "again" ELSE "raise"
    ELSE IF outcome \in {"error", "none"} THEN "raise" ELSE "return"

\* A get_longpoll_server that stores the key and server before it looks at
\* the error
stored_always(outcome, old, new) == new

\* The key and server get_longpoll_server stores for an answer
stored(outcome, old, new) ==
    IF get_longpoll_server(outcome) = "return" THEN new ELSE old

\* One answered request of get_longpoll_server, made by the loop (by = 0) or
\* by poll task by; n is the position the remote side reports
negotiate(by, outcome, n) ==
    /\ Len(negotiations) < MaxNegotiations
    /\ n \in srv_ts..Len(stream)
    /\ outcome # "ok" => n = srv_ts
    /\ negotiations' = Append(negotiations,
            [by |-> by, at |-> pc, outcome |-> outcome, ts |-> n,
             did |-> get_longpoll_server(outcome)])
    /\ key' = stored(outcome, key, Len(negotiations) + 1)
    /\ server' = stored(outcome, server, Len(negotiations) + 1)
    /\ srv_ts' = n

\* _run: ts = await self.get_longpoll_server()  before the loop
startup_negotiated(outcome, n) ==
    /\ pc = "get_longpoll_server"
    /\ negotiate(0, outcome, n)
    /\ LET did == get_longpoll_server(outcome) IN
        /\ pc' = IF did = "return" THEN "print_warnings"
                 ELSE IF did = "raise" THEN "dead" ELSE pc
        /\ ts' = IF did = "return" THEN n ELSE ts
    /\ UNCHANGED <<updates, update, caught, force, polls, stream, handled, emitted>>
    /\ UNCHANGED <<_listeners, future, tasks, last, ndispatch, client_vars>>

\* _run: await self.print_warnings(); it raises when the answer has no
\* 'response'
print_warnings(ok) ==
    /\ pc = "print_warnings"
    /\ pc' = IF ok THEN "ready" ELSE "dead"
    /\ UNCHANGED <<ts, updates, update, caught, key, server, force, polls, srv_ts,
                   stream, negotiations, handled, emitted>>
    /\ UNCHANGED <<_listeners, future, tasks, last, ndispatch, client_vars>>

\* A _run that dispatches nothing before its loop
first_event_none == <<>>

\* The event _run dispatches before its loop
first_event == ready

\* _run: self.dispatch('ready'); updates = []
dispatch_ready ==
    /\ pc = "ready"
    /\ IF first_event = <<>>
       THEN UNCHANGED <<_listeners, future, tasks, last, ndispatch, emitted>>
       ELSE /\ do_dispatch(first_event, <<>>)
            /\ emitted' = Append(emitted, <<first_event, <<>>>>)
    /\ updates' = <<>>
    /\ pc' = "while"
    /\ UNCHANGED <<ts, update, caught, key, server, force, polls, srv_ts, stream,
                   negotiations, handled>>
    /\ UNCHANGED client_vars

NewPoll(t) == [ts |-> t, state |-> "created", key |-> 0, server |-> 0,
               res |-> None, result |-> [ts |-> 0, updates |-> <<>>]]

\* (variant: the for statement starts at the second update)
first_update_second(us) == 2

\* for update in updates  starts at the first update of the list
first_update(us) == 1

\* _run: lp = self.loop.create_task(self.longpoll(ts))
create_task ==
    /\ pc = "while"
    /\ Len(polls) < MaxPolls
    /\ polls' = Append(polls, NewPoll(ts))
    /\ update' = first_update(updates)
    /\ pc' = "for"
    /\ UNCHANGED <<ts, updates, caught, key, server, force, srv_ts, stream,
                   negotiations, handled, emitted>>
    /\ UNCHANGED <<_listeners, future, tasks, last, ndispatch, client_vars>>

\* A _run whose try statement stands inside the for statement
after_raise_next_update(at, n) == "for"

\* Where _run goes when handle_update raised on an update of the batch
after_raise(at, n) == "except"

\* _run: self.handle_update(update) for the next update of the batch
handle_update ==
    /\ pc = "for"
    /\ update <= Len(updates)
    /\ handled' = Append(handled, updates[update].id)
    /\ update' = update + 1
    /\ LET does == handle_update_does(updates[update], extra_events) IN
        IF does.kind = "raise"
        THEN /\ pc' = after_raise(update, Len(updates))
             /\ caught' = IF pc' = "except" THEN "KeyError" ELSE caught
             /\ UNCHANGED <<_listeners, future, tasks, last, ndispatch, emitted>>
        ELSE IF does.kind = "dispatch"
        THEN /\ do_dispatch(does.event, does.args)
             /\ emitted' = Append(emitted, <<does.event, does.args>>)
             /\ UNCHANGED <<pc, caught>>
        ELSE UNCHANGED <<_listeners, future, tasks, last, ndispatch, emitted, pc, caught>>
    /\ UNCHANGED <<ts, updates, key, server, force, polls, srv_ts, stream, negotiations>>
    /\ UNCHANGED client_vars

\* (variant: _run awaits the tasks of the handlers before it awaits lp)
awaited_all(created) == {i \in 1..Len(created) : created[i].state = "PENDING"}

\* The handler tasks _run awaits: none, what handle_update returns is dropped
awaited(created) == {}

\* _run: the batch is exhausted, await lp suspends the loop
await_lp ==
    /\ pc = "for"
    /\ update > Len(updates)
    /\ awaited(tasks) = {}
    /\ pc' = "await lp"
    /\ UNCHANGED <<ts, updates, update, caught, key, server, force, polls, srv_ts,
                   stream, negotiations, handled, emitted>>
    /\ UNCHANGED <<_listeners, future, tasks, last, ndispatch, client_vars>>

\* A _run that keeps its position when a poll returns
taken_kept(result, old) == old

\* The position _run takes from the result of a poll
taken(result, old) == result.ts

\* _run: ts, updates = await lp  resumes with the result or the exception of lp
lp_done ==
    /\ pc = "await lp"
    /\ polls[lp].state \in {"done", "raised"}
    /\ IF polls[lp].state = "done"
       THEN /\ ts' = taken(polls[lp].result, ts)
            /\ updates' = polls[lp].result.updates
            /\ pc' = "while"
            /\ UNCHANGED caught
       ELSE /\ pc' = "except"
            /\ caught' = "poll"
            /\ UNCHANGED <<ts, updates>>
    /\ UNCHANGED <<update, key, server, force, polls, srv_ts, stream, negotiations,
                   handled, emitted>>
    /\ UNCHANGED <<_listeners, future, tasks, last, ndispatch, client_vars>>

\* An except clause that negotiates and keeps the old position
recovered_kept(n, old) == old

\* The position _run goes on with after the negotiation of its except clause
recovered(n, old) == n

\* _run, except clause: ts = await self.get_longpoll_server()
except_negotiated(outcome, n) ==
    /\ pc = "except"
    /\ negotiate(0, outcome, n)
    /\ LET did == get_longpoll_server(outcome) IN
        /\ pc' = IF did = "return" THEN "while"
                 ELSE IF did = "raise" THEN "dead" ELSE pc
        /\ ts' = IF did = "return" THEN recovered(n, ts) ELSE ts
    /\ UNCHANGED <<updates, update, caught, force, polls, stream, handled, emitted>>
    /\ UNCHANGED <<_listeners, future, tasks, last, ndispatch, client_vars>>

\* longpoll: the task starts, builds its payload from self.key and ts and
\* sends it to self.server
longpoll_request(p) ==
    /\ ~running
    /\ p \in 1..Len(polls)
    /\ polls[p].state = "created"
    /\ polls' = [polls EXCEPT ![p].state = "requesting", ![p].key = key,
                              ![p].server = server]
    /\ UNCHANGED <<pc, ts, updates, update, caught, key, server, force, srv_ts, stream,
                   negotiations, handled, emitted>>
    /\ UNCHANGED <<_listeners, future, tasks, last, ndispatch, client_vars>>

\* longpoll: the answer to a_check arrives; n is the position the remote side
\* has reached
longpoll_response(p, res, n) ==
    /\ ~running
    /\ p \in 1..Len(polls)
    /\ polls[p].state = "requesting"
    /\ n \in srv_ts..Len(stream)
    /\ res # "ok" => n = srv_ts
    /\ srv_ts' = n
    /\ polls' = [polls EXCEPT ![p] =
            IF res = "ok"
            THEN [@ EXCEPT !.state = "done", !.res = res,
                           !.result = [ts |-> n, updates |-> batch(polls[p].ts, n)]]
            ELSE IF res = "failed"
            THEN [@ EXCEPT !.state = "negotiating", !.res = res]
            ELSE [@ EXCEPT !.state = "raised", !.res = res]]
    /\ UNCHANGED <<pc, ts, updates, update, caught, key, server, force, stream,
                   negotiations, handled, emitted>>
    /\ UNCHANGED <<_listeners, future, tasks, last, ndispatch, client_vars>>

\* longpoll: ts = await self.get_longpoll_server()  after a 'failed' answer
longpoll_negotiated(p, outcome, n) ==
    /\ ~running
    /\ p \in 1..Len(polls)
    /\ polls[p].state = "negotiating"
    /\ negotiate(p, outcome, n)
    /\ LET did == get_longpoll_server(outcome) IN
        polls' = [polls EXCEPT ![p] =
            IF did = "return"
            THEN [@ EXCEPT !.state = "done", !.result = [ts |-> n, updates |-> <<>>]]
            ELSE IF did = "raise" THEN [@ EXCEPT !.state = "raised"]
            ELSE @]
    /\ UNCHANGED <<pc, ts, updates, update, caught, force, stream, handled, emitted>>
    /\ UNCHANGED <<_listeners, future, tasks, last, ndispatch, client_vars>>

NextLoop ==
    \/ \E outcome \in Outcomes, n \in 0..Len(stream) : startup_negotiated(outcome, n)
    \/ \E ok \in BOOLEAN : print_warnings(ok)
    \/ dispatch_ready
    \/ create_task
    \/ handle_update
    \/ await_lp
    \/ lp_done
    \/ \E outcome \in Outcomes, n \in 0..Len(stream) : except_negotiated(outcome, n)
    \/ \E p \in 1..MaxPolls : longpoll_request(p)
    \/ \E p \in 1..MaxPolls, res \in Responses, n \in 0..Len(stream) :
            longpoll_response(p, res, n)
    \/ \E p \in 1..MaxPolls, outcome \in Outcomes, n \in 0..Len(stream) :
            longpoll_negotiated(p, outcome, n)

\* _run has found its group and is about to negotiate
InitLoop ==
    /\ InitClient
    /\ lp_pc = "idle" /\ lp_ts = 0
    /\ pc = "get_longpoll_server"
    /\ force \in BOOLEAN
    /\ stream \in Streams

SpecLoop == InitLoop /\ [][NextLoop]_vars

\* ------------------------------------------------------------------------
\* One call of Client.longpoll, with the attempts of Client.general_request
\* ------------------------------------------------------------------------

\* range(5), the values of tries in general_request
range5 == 0..4

\* What one attempt of general_request meets: a JSON answer with a position,
\* a JSON answer with a failure marker, an answer that is not JSON, a local
\* timeout of the request (asyncio.TimeoutError), a network error
Attempts == {"json ts", "json failed", "text", "TimeoutError", "ClientError"}

\* (variant: the timeout passes through general_request)
except_Exception_not_timeout(exc) == exc = "ClientError"

\* except Exception  in general_request: asyncio.TimeoutError and the errors
\* of the HTTP client are subclasses of Exception
except_Exception(exc) == exc \in {"TimeoutError", "ClientError"}

Returned(t, u) == [kind |-> "returned", ts |-> t, updates |-> u, exception |-> None]

Raised(exc) == [kind |-> "raised", ts |-> 0, updates |-> <<>>, exception |-> exc]

\* general_request: one attempt, and what longpoll does with its outcome
\* when the attempt ends the request; n is the position of the remote side
attempt(outcome, n) ==
    /\ lp_pc = "request"
    /\ tries \in range5
    /\ n \in lp_ts..Len(stream)
    /\ outcome # "json ts" => n = lp_ts
    /\ IF outcome = "json ts"
       THEN /\ lp_pc' = "returned"
            /\ lp_result' = Returned(n, batch(lp_ts, n))
            /\ UNCHANGED <<slept, errors>>
       ELSE IF outcome = "json failed"
       THEN /\ lp_pc' = "get_longpoll_server"
            /\ UNCHANGED <<lp_result, slept, errors>>
       ELSE IF outcome = "text"
       THEN /\ lp_pc' = "raised"
            /\ lp_result' = Raised("AttributeError")
            /\ UNCHANGED <<slept, errors>>
       ELSE /\ errors' = Append(errors, outcome)
            /\ IF except_Exception(outcome)
               THEN /\ lp_pc' = "sleep"
                    /\ slept' = Append(slept, tries * 2 + 1)
                    /\ UNCHANGED lp_result
               ELSE IF outcome = "TimeoutError"
               THEN /\ lp_pc' = "returned"
                    /\ lp_result' = Returned(lp_ts, <<>>)
                    /\ UNCHANGED slept
               ELSE /\ lp_pc' = "raised"
                    /\ lp_result' = Raised(outcome)
                    /\ UNCHANGED slept
    /\ UNCHANGED <<lp_ts, tries>>
    /\ UNCHANGED <<pc, ts, updates, update, caught, key, server, force, polls, srv_ts,
                   stream, negotiations, handled, emitted>>
    /\ UNCHANGED <<_listeners, future, tasks, last, ndispatch, condition, check, waited,
                   handle, task_vars>>

\* (variant: a general_request that raises its last exception again)
general_request_end_raises(errs) == [kind |-> "raise", value |-> errs[Len(errs)]]

\* general_request: the for statement is exhausted and the function ends
\* without a return statement: the call returns None
general_request_end(errs) == [kind |-> "return", value |-> None]

\* longpoll: what becomes of the call when general_request has ended:
\* res.keys() on None raises AttributeError, an exception passes through
longpoll_after(end) ==
    IF end.kind = "return" THEN Raised("AttributeError") ELSE Raised(end.value)

\* general_request: asyncio.sleep returns, the for statement goes on; after
\* the last value of tries the function ends without a return statement, and
\* longpoll calls keys() on None
sleep_returns ==
    /\ lp_pc = "sleep"
    /\ tries' = tries + 1
    /\ IF tries' \in range5
       THEN lp_pc' = "request" /\ UNCHANGED lp_result
       ELSE lp_pc' = "raised" /\ lp_result' = longpoll_after(general_request_end(errors))
    /\ UNCHANGED <<lp_ts, slept, errors>>
    /\ UNCHANGED <<pc, ts, updates, update, caught, key, server, force, polls, srv_ts,
                   stream, negotiations, handled, emitted>>
    /\ UNCHANGED <<_listeners, future, tasks, last, ndispatch, condition, check, waited,
                   handle, task_vars>>

\* longpoll: ts = await self.get_longpoll_server()  after a 'failed' answer
request_negotiated(outcome, n) ==
    /\ lp_pc = "get_longpoll_server"
    /\ negotiate(1, outcome, n)
    /\ LET did == get_longpoll_server(outcome) IN
        IF did = "return" THEN lp_pc' = "returned" /\ lp_result' = Returned(n, <<>>)
        ELSE IF did = "raise" THEN lp_pc' = "raised" /\ lp_result' = Raised("VKApiError")
        ELSE UNCHANGED <<lp_pc, lp_result>>
    /\ UNCHANGED <<lp_ts, tries, slept, errors>>
    /\ UNCHANGED <<pc, ts, updates, update, caught, force, polls, stream, handled, emitted>>
    /\ UNCHANGED <<_listeners, future, tasks, last, ndispatch, condition, check, waited,
                   handle, task_vars>>

NextRequest ==
    \/ \E outcome \in Attempts, n \in 0..Len(stream) : attempt(outcome, n)
    \/ sleep_returns
    \/ \E outcome \in Outcomes, n \in 0..Len(stream) : request_negotiated(outcome, n)

\* longpoll(ts) has been called with the key and server of a negotiation
InitRequest ==
    /\ InitClient
    /\ pc = "await lp"
    /\ force \in BOOLEAN
    /\ stream \in Streams
    /\ lp_pc = "request"
    /\ lp_ts \in 0..Len(stream)

SpecRequest == InitRequest /\ [][NextRequest]_vars

\* ------------------------------------------------------------------------
\* Client.handle_update on single updates, with waiters registered
\* ------------------------------------------------------------------------

\* The updates handed to handle_update
Updates == {[id |-> 1, type |-> message_new, text |-> "hi"],
            [id |-> 2, type |-> message_new, text |-> "hello"],
            [id |-> 3, type |-> message_new, text |-> malformed],
            [id |-> 4, type |-> message_reply, text |-> "hello"]}

update_of(id) == CHOOSE u \in Updates : u.id = id

\* The values of self.extra_events: code outside client.py appends the names
\* of the listeners that are registered
ExtraEvents == {{}, {on_ \o message_reply}}

\* handle_update(u) with self.extra_events = extra
handle_one(u, extra) ==
    /\ Len(handled) < MaxDispatch
    /\ handled' = Append(handled, u.id)
    /\ LET does == handle_update_does(u, extra) IN
        IF does.kind = "dispatch"
        THEN /\ do_dispatch(does.event, does.args)
             /\ emitted' = Append(emitted, <<does.event, does.args>>)
        ELSE UNCHANGED <<_listeners, future, tasks, last, ndispatch, emitted>>
    /\ UNCHANGED <<pc, ts, updates, update, caught, key, server, force, polls, srv_ts,
                   stream, negotiations>>
    /\ UNCHANGED client_vars

NextUpdate ==
    \/ \E event \in {message_new, message_reply}, chk \in Checks : wait_for(event, chk)
    \/ \E u \in Updates, extra \in ExtraEvents : handle_one(u, extra)

SpecUpdate == Init /\ [][NextUpdate]_vars

\* ------------------------------------------------------------------------
\* The ingestion loop together with the tasks of the handlers, as the event
\* loop runs them: what create_task made ready runs first, in the order of
\* creation, before anything that becomes ready later
\* ------------------------------------------------------------------------

\* The polls and the handler tasks that were created and have not run yet
created_polls == {p \in 1..Len(polls) : polls[p].state = "created"}

unstarted ==
    {i \in 1..Len(tasks) : tasks[i].state = "PENDING" /\ runs[i].handler = "none"}

nothing_ready == created_polls = {} /\ unstarted = {}

\* handle_update of _run, as long as the run has room for the task
handle_update_task ==
    /\ Len(tasks) < MaxDispatch
    /\ handle_update

\* The event loop starts the handler task that was created first
start_next ==
    /\ ~running
    /\ created_polls = {}
    /\ \E i \in unstarted :
        /\ \A j \in unstarted : i <= j
        /\ _run_event_start(i)

\* A handler that was suspended goes on and returns
resume_handler(i) ==
    /\ ~running
    /\ nothing_ready
    /\ handler_returns(i)

NextClient ==
    \/ \E outcome \in Outcomes, n \in 0..Len(stream) : startup_negotiated(outcome, n)
    \/ \E ok \in BOOLEAN : print_warnings(ok)
    \/ dispatch_ready
    \/ create_task
    \/ handle_update_task
    \/ await_lp
    \/ nothing_ready /\ lp_done
    \/ \E outcome \in Outcomes, n \in 0..Len(stream) :
            nothing_ready /\ except_negotiated(outcome, n)
    \/ \E p \in 1..MaxPolls : longpoll_request(p)
    \/ \E p \in 1..MaxPolls, res \in Responses, n \in 0..Len(stream) :
            nothing_ready /\ longpoll_response(p, res, n)
    \/ \E p \in 1..MaxPolls, outcome \in Outcomes, n \in 0..Len(stream) :
            nothing_ready /\ longpoll_negotiated(p, outcome, n)
    \/ start_next
    \/ \E i \in TaskIds : resume_handler(i)

SpecClient == InitLoop /\ [][NextClient]_vars

\* ------------------------------------------------------------------------
\* Vocabulary of the properties
\* ------------------------------------------------------------------------
Range(seq) == {seq[i] : i \in 1..Len(seq)}

\* The list stored under a name, the empty list when the name is absent
listeners_of(d, e) == IF e \in DOMAIN d THEN d[e] ELSE <<>>

\* The entries present anywhere in a registry
entries(d) == UNION {Range(d[k]) : k \in DOMAIN d}

\* The step is a call of dispatch; last' then describes that call
is_dispatch == ndispatch' = ndispatch + 1

\* The step is a call of wait_for; waited' is then its event argument
is_wait_for == registered' # registered

\* What the check given to wait_for says of the arguments of an event
satisfied(w, a) ==
    \/ check[w] = None
    \/ check[w] = "is_hello" /\ Len(a) = 1 /\ a[1] = "hello"

refused(w, a) == check[w] = "is_hello" /\ Len(a) = 1 /\ a[1] # "hello"

raising(w, a) == check[w] = "is_hello" /\ Len(a) # 1

\* The value a wait returns for an event dispatched with arguments a
delivered(a) ==
    CASE Len(a) = 0 -> [none |-> TRUE]
      [] Len(a) = 1 -> [value |-> a[1]]
      [] OTHER -> [tuple |-> a]

\* The lower-case spelling of the event names of the model
canonical(e) == IF e = Message_New THEN message_new ELSE e

\* ------------------------------------------------------------------------
\* Properties
\* ------------------------------------------------------------------------

\* C1: a waiter that is registered for an event and pending when the event is
\* dispatched with arguments satisfying its check (no check given: any
\* arguments) is resolved with exactly those arguments and is removed from
\* the registry by that dispatch call; a resolved waiter is never changed,
\* consulted or registered again by a later dispatch.
C1_MatchResolvesOnce ==
    [][is_dispatch =>
          LET a == last'.args
              lst == listeners_of(_listeners, last'.event)
          IN  /\ \A i \in 1..Len(lst) :
                    (future[lst[i]].state = "PENDING" /\ satisfied(lst[i], a)) =>
                        /\ future'[lst[i]] = [state |-> "FINISHED", result |-> delivered(a),
                                              exception |-> None]
                        /\ lst[i] \notin entries(_listeners')
              /\ \A w \in WaiterIds :
                    future[w].state = "FINISHED" =>
                        /\ future'[w] = future[w]
                        /\ w \notin Range(last'.evaluated)
                        /\ w \notin entries(_listeners')]_vars

\* Two identical dispatches of message_new("hello"): the first resolved waiter
\* 1, the second resolved waiter 2 and did not consult waiter 1.
C1_Witness ==
    /\ ndispatch = 2
    /\ Len(tasks) = 2 /\ tasks[1].args = <<"hello">> /\ tasks[2].args = <<"hello">>
    /\ future[1].state = "FINISHED" /\ future[1].result = [value |-> "hello"]
    /\ future[2].state = "FINISHED"
    /\ last.evaluated = <<2>>

\* C2: a pending waiter whose check returns false for a dispatched event is
\* left unresolved and stays in the list of that event; a pending waiter
\* whose check the arguments satisfy is resolved by that very dispatch, so a
\* waiter is resolved by the first dispatch that meets its check.
C2_FirstMatchingEvent ==
    [][is_dispatch =>
          LET a == last'.args
              e == last'.event
              lst == listeners_of(_listeners, e)
          IN  \A i \in 1..Len(lst) :
                 /\ (future[lst[i]].state = "PENDING" /\ refused(lst[i], a)) =>
                        /\ future'[lst[i]] = future[lst[i]]
                        /\ lst[i] \in Range(listeners_of(_listeners', e))
                 /\ (future[lst[i]].state = "PENDING" /\ satisfied(lst[i], a)) =>
                        /\ future'[lst[i]].state = "FINISHED"
                        /\ future'[lst[i]].result = delivered(a)]_vars

\* message_new("hi") resolved waiter 2 (no check) and left waiter 1 (is_hello)
\* waiting; message_new("hello") then resolved waiter 1.
C2_Witness ==
    /\ check[1] = "is_hello" /\ check[2] = None
    /\ future[2].state = "FINISHED" /\ future[2].result = [value |-> "hi"]
    /\ future[1].state = "FINISHED" /\ future[1].result = [value |-> "hello"]
    /\ last.args = <<"hello">> /\ last.evaluated = <<1>>

\* C3: a pending waiter whose check raises during a dispatch gets the error
\* of the check as the exception of its future and is removed from the
\* registry by that dispatch call, which still calls the check of every other
\* waiter of the list that is not cancelled and returns normally; a waiter
\* that failed is never consulted or changed by a later dispatch.
C3_PredicateErrorIsolated ==
    [][is_dispatch =>
          LET a == last'.args
              lst == listeners_of(_listeners, last'.event)
          IN  /\ \A i \in 1..Len(lst) :
                    (future[lst[i]].state = "PENDING" /\ raising(lst[i], a)) =>
                        /\ future'[lst[i]] = [state |-> "FINISHED", result |-> [none |-> TRUE],
                                              exception |-> "TypeError"]
                        /\ lst[i] \notin entries(_listeners')
                        /\ ~last'.raised
                        /\ \A j \in 1..Len(lst) :
                              future[lst[j]].state = "PENDING" => lst[j] \in Range(last'.evaluated)
              /\ \A w \in WaiterIds :
                    future[w].exception # None =>
                        /\ future'[w] = future[w]
                        /\ w \notin Range(last'.evaluated)]_vars

\* One dispatch in which the check of waiter 1 raised and waiter 2, behind it
\* in the list, was still evaluated and resolved.
C3_Witness ==
    /\ future[1].state = "FINISHED" /\ future[1].exception = "TypeError"
    /\ future[2].state = "FINISHED" /\ future[2].exception = None
    /\ last.evaluated = <<1, 2>>
    /\ entries(_listeners) = {}

C5_CancelOneCleanup ==
    [][\A w \in WaiterIds :
          /\ (handle[w] = "awaiting" /\ handle'[w] = "CancelledError") =>
                future'[w] = [state |-> "CANCELLED", result |-> [none |-> TRUE],
                              exception |-> None]
          /\ handle[w] = "CancelledError" =>
                /\ future'[w] = future[w]
                /\ future[w].state = "CANCELLED"
                /\ is_dispatch => w \notin Range(last'.evaluated)
                /\ IF is_dispatch /\ w \in Range(listeners_of(_listeners, last'.event))
                   THEN w \notin entries(_listeners')
                   ELSE (w \in entries(_listeners')) <=> (w \in entries(_listeners))
                /\ \A k \in DOMAIN _listeners :
                      Cardinality({i \in 1..Len(_listeners[k]) : _listeners[k][i] = w}) <= 1]_vars

\* The only waiter was cancelled by its owner and the one dispatch that
\* followed removed it without calling its check.
C5_Witness ==
    /\ registered = {1}
    /\ handle[1] = "CancelledError" /\ future[1].state = "CANCELLED"
    /\ ndispatch = 1 /\ last.removed = <<1>> /\ last.evaluated = <<>>
    /\ _listeners = <<>>

\* C6: a waiter whose check accepted the arguments of the latest dispatch
\* holds as its result: None when the event had no argument, the argument
\* itself when it had exactly one, the ordered tuple of the arguments when it
\* had more than one.
C6_DeliveredValue ==
    \A w \in Range(last.evaluated) :
        satisfied(w, last.args) =>
            /\ future[w].state = "FINISHED" /\ future[w].exception = None
            /\ Len(last.args) = 0 => future[w].result = [none |-> TRUE]
            /\ Len(last.args) = 1 => future[w].result = [value |-> last.args[1]]
            /\ Len(last.args) > 1 => future[w].result = [tuple |-> last.args]

\* Waiter 1 was resolved by ready() with None and waiter 2 by an event of two
\* arguments with the tuple.
C6_Witness ==
    /\ future[1].state = "FINISHED" /\ future[1].exception = None
    /\ future[1].result = [none |-> TRUE]
    /\ future[2].state = "FINISHED" /\ future[2].result = [tuple |-> <<"hello", "hi">>]
    /\ last.args = <<"hello", "hi">> /\ last.evaluated = <<2>>

\* C7: in one dispatch call the checks of the waiters of the event are called
\* in registration order (the order of the list, which is the order of the
\* wait_for calls), one call for each entry that is not cancelled, and every
\* pending waiter whose check accepts the event is resolved by that call.
C7_AllMatchingInOrder ==
    [][is_dispatch =>
          LET a == last'.args
              lst == listeners_of(_listeners, last'.event)
          IN  /\ last'.evaluated = SelectSeq(lst, LAMBDA w : future[w].state # "CANCELLED")
              /\ \A i, j \in 1..Len(lst) : i < j => lst[i] < lst[j]
              /\ \A i \in 1..Len(lst) :
                    (future[lst[i]].state = "PENDING" /\ satisfied(lst[i], a)) =>
                        future'[lst[i]].state = "FINISHED" /\ future'[lst[i]].exception = None]_vars

\* One dispatch of message_new("hello") resolved both waiters, the one with
\* the is_hello check and the one without a check.
C7_Witness ==
    /\ ndispatch = 1 /\ last.evaluated = <<1, 2>>
    /\ check[1] = "is_hello" /\ check[2] = None
    /\ future[1].result = [value |-> "hello"] /\ future[2].result = [value |-> "hello"]

\* C8 (as first stated): a dispatch consults every pending waiter registered
\* under the case-insensitive form of the name it is given.
C8_DispatchCaseInsensitive ==
    [][is_dispatch =>
          \A w \in Range(listeners_of(_listeners, canonical(last'.event))) :
              future[w].state = "PENDING" => w \in Range(last'.evaluated)]_vars

\* C8: wait_for registers the waiter at the end of the list of the lower-case
\* form of its event name, so that the names of the registry are lower-case;
\* dispatch looks the waiters up under the name exactly as it is given: it
\* consults the entries of that list and no others, hence the waiter of any
\* letter-casing on a dispatch of the lower-case name, and no waiter on a
\* dispatch of a name with upper-case letters.
C8_LowerCaseRegistration ==
    [][/\ is_wait_for =>
            LET w == CHOOSE x \in registered' \ registered : TRUE
                lst == listeners_of(_listeners', canonical(waited'))
            IN  /\ DOMAIN _listeners' \subseteq {message_new, ready}
                /\ Len(lst) > 0 /\ lst[Len(lst)] = w
       /\ is_dispatch =>
            /\ last'.evaluated = SelectSeq(listeners_of(_listeners, last'.event),
                                           LAMBDA w : future[w].state # "CANCELLED")
            /\ last'.event \notin {message_new, ready} =>
                  /\ last'.evaluated = <<>>
                  /\ _listeners' = _listeners /\ future' = future]_vars

\* The latest wait_for was given 'Message_New' and its waiter was resolved by
\* a dispatch of 'message_new'.
C8_Witness ==
    /\ waited = Message_New /\ registered = {1}
    /\ last.event = message_new /\ last.evaluated = <<1>>
    /\ future[1].state = "FINISHED"

\* C9: no dispatch call raises: the error of a check ends in the future of
\* its waiter, and no call of set_result or set_exception meets a future that
\* is not pending.
C9_DispatchNeverRaises == last.raised = FALSE

\* A dispatch that skipped a cancelled entry, met a check that raised and
\* scheduled the handler returned normally.
C9_Witness ==
    /\ future[1].state = "CANCELLED" /\ future[2].exception = "TypeError"
    /\ last.removed = <<1, 2>> /\ last.evaluated = <<2>>
    /\ Len(tasks) = ndispatch /\ ndispatch > 0
    /\ ~last.raised

\* C10: a dispatch call creates exactly one task, for the method on_<event>
\* and with the arguments of the call, when the client has a method of that
\* name, and no task otherwise; with no waiter of the event and no such
\* method the call changes neither the registry, nor a future, nor the tasks,
\* and returns normally.
C10_OneTaskPerBoundHandler ==
    [][is_dispatch =>
          LET e == last'.event
              a == last'.args
              method == <<"o", "n", "_">> \o e
          IN  /\ IF method \in bound_handlers
                 THEN tasks' = Append(tasks, [event_name |-> method, args |-> a,
                                              state |-> "PENDING"])
                 ELSE tasks' = tasks
              /\ (listeners_of(_listeners, e) = <<>> /\ method \notin bound_handlers) =>
                    /\ _listeners' = _listeners /\ future' = future /\ tasks' = tasks
                    /\ ~last'.raised]_vars

\* A dispatch of message_new created the task of on_message_new with its two
\* arguments; the dispatch of ready that followed, with no waiter and no
\* on_ready, created none.
C10_Witness ==
    /\ ndispatch = 2 /\ registered = {}
    /\ last.event = ready
    /\ Len(tasks) = 1
    /\ tasks[1].event_name = <<"o", "n", "_">> \o message_new
    /\ tasks[1].args = <<"hello", "hi">>

\* The calls of on_error made for task i, and the handler calls of task i
hook_calls_of(i) == {k \in 1..Len(on_error_calls) : on_error_calls[k][1] = i}

handler_calls_of(i) == {k \in 1..Len(invocations) : invocations[k].task = i}

\* C11: the handler of a task is called at most once, with the arguments of
\* the dispatch that created the task; on_error is called exactly once for a
\* handler call that raised and never for one that did not, with the name of
\* the handler method and the arguments the handler was called with; and
\* whatever became of earlier tasks, every task created is run by the event
\* loop (its handler is called, unless the task was cancelled before).
C11_OneHookCallPerFailure ==
    /\ [](\A i \in 1..Len(tasks) :
            /\ Cardinality(handler_calls_of(i)) = (IF runs[i].handler = "none" THEN 0 ELSE 1)
            /\ \A k \in handler_calls_of(i) : invocations[k].args = tasks[i].args
            /\ Cardinality(hook_calls_of(i)) = (IF runs[i].handler = "raised" THEN 1 ELSE 0)
            /\ \A k \in hook_calls_of(i) :
                  /\ on_error_calls[k][2].event_method = <<"o", "n", "_">> \o message_new
                  /\ \A h \in handler_calls_of(i) :
                        on_error_calls[k][2].args = invocations[h].args)
    /\ \A i \in TaskIds :
          (Len(tasks) >= i) ~>
              (runs[i].handler # "none" \/ (Len(tasks) >= i /\ tasks[i].state = "CANCELLED"))

\* Two events: the handler failed on the first, on_error was called once for
\* it, and the handler was called and returned on the second.
C11_Witness ==
    /\ Len(tasks) = 2 /\ Len(invocations) = 2
    /\ runs[1].handler = "raised" /\ runs[1].hook = "returned"
    /\ runs[2].handler = "returned"
    /\ tasks[1].args = <<"hi">> /\ tasks[2].args = <<"hello", "hi">>
    /\ on_error_calls = <<<<1, [event_method |-> <<"o", "n", "_">> \o message_new,
                               args |-> <<"hi">>]>>>>

\* C12: the step that cancels a task calls on_error for no task, leaves the
\* loop and every other task and its run as they are, and ends the task without an
\* exception; no call of on_error is ever made for a task that was cancelled
\* in its handler or before its first run.
C12_CancelIsBenign ==
    [][\A i \in TaskIds :
          /\ (i <= Len(tasks) /\ tasks[i].state = "PENDING" /\ i <= Len(tasks')
              /\ (tasks'[i].state = "CANCELLED" \/ runs'[i].handler = "cancelled"
                  \/ runs'[i].hook = "cancelled")) =>
                /\ on_error_calls' = on_error_calls
                /\ loop_vars' = loop_vars
                /\ runs'[i].exception = None
                /\ \A j \in TaskIds \ {i} :
                      /\ runs'[j] = runs[j]
                      /\ j <= Len(tasks) => tasks'[j] = tasks[j]
          /\ (i <= Len(tasks) /\ (tasks[i].state = "CANCELLED" \/ runs[i].handler = "cancelled")) =>
                /\ hook_calls_of(i) = {}
                /\ \A k \in 1..Len(on_error_calls') : on_error_calls'[k][1] # i]_vars

\* The handler of task 1 was cancelled while it ran: no call of on_error; the
\* handler of task 2 was called afterwards and returned.
C12_Witness ==
    /\ Len(tasks) = 2
    /\ runs[1].handler = "cancelled" /\ tasks[1].state = "FINISHED"
    /\ runs[2].handler = "returned" /\ tasks[2].state = "FINISHED"
    /\ Len(invocations) = 2 /\ invocations[2].task = 2
    /\ on_error_calls = <<>>

\* C13 (as first stated): when on_error raises while handling the failure of
\* a handler, the task completes without an exception.
C13_HookErrorSwallowed ==
    \A i \in TaskIds : runs[i].hook = "raised" => runs[i].exception = None

\* C13: when on_error raises an exception other than a cancellation while
\* handling the failure of a handler, the exception leaves _run_event and
\* ends that task with this exception; on_error is not called again, and the
\* loop and every other task and its run are left as they are.
C13_HookErrorEndsOnlyItsTask ==
    [][\A i \in TaskIds :
          (runs[i].hook = "running" /\ runs'[i].hook = "raised") =>
              /\ tasks'[i].state = "FINISHED"
              /\ runs'[i].exception = "Exception"
              /\ on_error_calls' = on_error_calls
              /\ invocations' = invocations
              /\ loop_vars' = loop_vars
              /\ Len(tasks') = Len(tasks)
              /\ \A j \in TaskIds \ {i} :
                    /\ runs'[j] = runs[j]
                    /\ j <= Len(tasks) => tasks'[j] = tasks[j]]_vars

\* on_error raised for task 1, which ended with the exception, while task 2
\* was still run to its end.
C13_Witness ==
    /\ Len(tasks) = 2
    /\ runs[1].hook = "raised" /\ runs[1].exception = "Exception"
    /\ tasks[1].state = "FINISHED"
    /\ Len(invocations) = 2 /\ invocations[2].task = 2 /\ runs[2].handler = "returned"

\* ------------------------------------------------------------------------
\* Properties of the ingestion loop
\* ------------------------------------------------------------------------

\* C14 (as stated): an exception raised while handling one update of a batch
\* does not stop the batch, every later update of the same batch is still
\* handled: _run leaves its for statement only past the last update.
C14_RaiseDoesNotStopBatch ==
    [][(pc = "for" /\ pc' # "for") => update' > Len(updates)]_vars

\* C15 (as stated): after the handling of an update raised the loop still
\* awaits the result of the poll it created: no poll task is left behind
\* unfinished when the loop creates the next one.
C15_LoopStillAwaitsPoll ==
    \A p \in 1..Len(polls) : p < lp => polls[p].state \in {"done", "raised"}


\* The positions in the log of emitted events at which 'ready' stands
readies == {i \in 1..Len(emitted) : emitted[i][1] = ready}

\* The startup negotiation has been answered with an error that is raised
startup_failed ==
    \E i \in 1..Len(negotiations) :
        negotiations[i].at = "get_longpoll_server" /\ negotiations[i].did = "raise"

\* C16: 'ready' is dispatched exactly once per run, after the startup
\* negotiation and print_warnings succeeded, before the first poll is created
\* and before any other event; it is not dispatched when the startup
\* negotiation fails.
C16_ReadyOnceBeforeFirstPoll ==
    /\ ndispatch = Len(emitted)
    /\ Cardinality(readies) <= 1
    /\ emitted # <<>> => readies = {1}
    /\ polls # <<>> => readies = {1}
    /\ pc \in {"while", "for", "await lp", "except"} => readies = {1}
    /\ pc \in {"get_longpoll_server", "print_warnings", "ready"} => emitted = <<>>
    /\ readies # {} =>
        /\ key # 0 /\ server # 0
        /\ \E i \in 1..Len(negotiations) :
            negotiations[i].at = "get_longpoll_server" /\ negotiations[i].did = "return"
    /\ startup_failed => (emitted = <<>> /\ polls = <<>> /\ pc = "dead")

C16_Witness ==
    /\ pc = "await lp"
    /\ Len(polls) >= 2
    /\ Len(emitted) >= 2
    /\ emitted[1] = <<ready, <<>>>>
    /\ emitted[2][1] = message_new


\* get_longpoll_server has raised on error 100 (force mode off)
rejected ==
    \E i \in 1..Len(negotiations) :
        negotiations[i].outcome = "error 100" /\ negotiations[i].did = "raise"

\* The step in which get_longpoll_server raises on error 100
rejects ==
    /\ Len(negotiations') = Len(negotiations) + 1
    /\ negotiations'[Len(negotiations')].outcome = "error 100"
    /\ negotiations'[Len(negotiations')].did = "raise"

returned == {i \in 1..Len(negotiations) : negotiations[i].did = "return"}

latest == CHOOSE i \in returned : \A j \in returned : j <= i

\* The requests poll task p made that were answered for good (not followed
\* by the repetition of force mode)
negotiated_by(p) ==
    {i \in 1..Len(negotiations) :
        negotiations[i].by = p /\ negotiations[i].did # "again"}

\* Poll task p sends its request in this step
sends(p) == polls[p].state = "created" /\ polls'[p].state = "requesting"

\* C18 (as stated): each answer that reports the position invalid makes the
\* poll negotiate exactly once; when that negotiation returns, the poll
\* returns the new position with no updates and no error reaches the loop,
\* which goes on to create the next poll; the poll that follows uses the
\* position, key and server of the latest negotiation.
C18_InvalidCursorRenegotiates ==
    [][\A p \in 1..Len(polls) :
        /\ (polls[p].state = "requesting" /\ polls'[p].state = "negotiating") =>
                (pc' = pc /\ caught' = caught /\ negotiated_by(p) = {})
        /\ (polls[p].state = "negotiating" /\ polls'[p].state = "done") =>
                /\ Cardinality(negotiated_by(p)') = 1
                /\ polls'[p].result = [ts |-> negotiations'[latest'].ts, updates |-> <<>>]
                /\ key' = latest' /\ server' = latest'
        /\ (polls[p].res = "failed" /\ polls[p].state = "done") =>
                /\ Cardinality(negotiated_by(p)) = 1
                /\ (p = lp /\ pc = "await lp" /\ pc' # pc) =>
                        (pc' = "while" /\ ts' = polls[p].result.ts /\ caught' = caught)
                /\ (p < Len(polls) /\ sends(p + 1)) =>
                        /\ polls'[p + 1].ts = negotiations[latest].ts
                        /\ polls'[p + 1].key = latest
                        /\ polls'[p + 1].server = latest]_vars


\* Poll task p was answered with a position and no failure marker
successful(p) == polls[p].res = "ok" /\ polls[p].state = "done"

\* C19 (as stated): after every successful poll the position of the loop is
\* the position that poll returned, also when its batch is empty, and the
\* next poll is issued with it; the positions of successive polls never go
\* back, the remote side never going back.
C19_CursorFollowsPoll ==
    [][/\ (pc = "await lp" /\ pc' # pc /\ successful(lp)) =>
            (pc' = "while" /\ ts' = polls[lp].result.ts)
       /\ \A p \in 1..Len(polls') :
            /\ (p < Len(polls') /\ successful(p)') =>
                    polls'[p + 1].ts = polls'[p].result.ts
            /\ p < Len(polls') => polls'[p].ts <= polls'[p + 1].ts]_vars


\* C20: when the poll the loop awaits raises, the loop goes to its except
\* clause and creates no poll before get_longpoll_server has returned there;
\* the poll it creates next carries the position of that negotiation and
\* sends the key and the server that negotiation stored.
C20_PollFailureRenegotiates ==
    [][/\ (pc = "await lp" /\ pc' # pc /\ polls[lp].state = "raised") =>
            (pc' = "except" /\ caught' = "poll" /\ polls' = polls)
       /\ (pc = "except" /\ caught = "poll") =>
            /\ Len(polls') = Len(polls)
            /\ pc' = "while" =>
                /\ Len(negotiations') = Len(negotiations) + 1
                /\ latest' = Len(negotiations')
                /\ negotiations'[latest'].by = 0
                /\ ts' = negotiations'[latest'].ts
                /\ key' = latest' /\ server' = latest'
       /\ (pc = "while" /\ pc' # pc /\ caught = "poll" /\ polls[lp].state = "raised") =>
            /\ Len(polls') = Len(polls) + 1
            /\ polls'[Len(polls')].ts = negotiations[latest].ts
            /\ negotiations[latest].at = "except"
       /\ \A p \in 2..Len(polls) :
            (sends(p) /\ caught = "poll" /\ polls[p - 1].state = "raised") =>
                /\ negotiations[latest].at = "except"
                /\ polls'[p].ts = negotiations[latest].ts
                /\ polls'[p].key = latest
                /\ polls'[p].server = latest]_vars

C20_Witness ==
    /\ caught = "poll"
    /\ Len(polls) >= 2
    /\ polls[lp - 1].state = "raised"
    /\ polls[lp].state = "requesting"
    /\ polls[lp].key = latest
    /\ polls[lp].ts = negotiations[latest].ts
    /\ polls[lp].ts > polls[lp - 1].ts
    /\ negotiations[latest].at = "except"


\* ------------------------------------------------------------------------
\* Properties of one call of longpoll
\* ------------------------------------------------------------------------

\* C21 (as stated): a local timeout of the poll request counts as zero
\* events: longpoll returns at once its own ts with an empty batch, and the
\* timeout causes no back-off sleep.
C21_TimeoutIsZeroEvents ==
    /\ Len(slept) = Cardinality({i \in 1..Len(errors) : errors[i] # "TimeoutError"})
    /\ (errors # <<>> /\ errors[Len(errors)] = "TimeoutError") =>
            (lp_pc = "returned" /\ lp_result = Returned(lp_ts, <<>>))


\* ------------------------------------------------------------------------
\* Properties of the ingestion loop, continued
\* ------------------------------------------------------------------------

\* C22 (as stated): in force mode one call of get_longpoll_server enables
\* long polling at most once and repeats its request at most once: the
\* answer to the repeated request never makes it enable and repeat again.
C22_ForceModeOneRetry ==
    \A i \in 1..Len(negotiations) :
        (i < Len(negotiations) /\ negotiations[i].did = "again"
            /\ negotiations[i + 1].by = negotiations[i].by) =>
                negotiations[i + 1].did # "again"


\* C23 (as stated): a network failure of a poll or of a negotiation is
\* recovered inside the loop and does not end it: when the poll failed and the
\* negotiation of the except clause gets no answer either, _run goes on.
C23_TransportFailureRecovered ==
    [][(/\ pc = "except" /\ caught = "poll"
        /\ Len(negotiations') = Len(negotiations) + 1
        /\ negotiations'[Len(negotiations')].outcome = "none") => pc' # "dead"]_vars


\* ------------------------------------------------------------------------
\* Properties of handle_update
\* ------------------------------------------------------------------------

\* The update handle_update is given in this step
is_handle == Len(handled') = Len(handled) + 1

given == update_of(handled'[Len(handled')])

\* C25 (as stated): for every well-formed update handle_update calls dispatch
\* with the type of the update, whether or not a listener is registered for
\* it, so that the waiters of that type are consulted: a pending waiter
\* without a check is resolved by the update.
C25_EveryUpdateDispatched ==
    [][(is_handle /\ given.text # malformed) =>
        /\ emitted' = Append(emitted, <<given.type, <<given.text>>>>)
        /\ is_dispatch
        /\ last'.event = given.type
        /\ \A w \in Range(listeners_of(_listeners, given.type)) :
            (future[w].state = "PENDING" /\ check[w] = None) =>
                future'[w] = set_result(PendingFuture, SoleValue(given.text)).f]_vars


\* ------------------------------------------------------------------------
\* Properties of the ingestion loop and the handler tasks
\* ------------------------------------------------------------------------

\* C26 (as stated): every update of a batch is handed to handle_update once
\* and not kept: no update is handed to it a second time in a later cycle.
C26_UpdateHandledOnce ==
    \A i, j \in 1..Len(handled) : handled[i] = handled[j] => i = j


\* C24: _run hands the updates of a batch to handle_update in the order of
\* the list, starting with the first; each message_new update appends the
\* task of on_message_new to the tasks created so far; the tasks start in the
\* order of their creation, and all of them have started when _run comes to
\* the first update of its next pass.
C24_UpdatesInOrder ==
    /\ [](\A k \in 1..Len(invocations) :
            /\ invocations[k].task = k
            /\ invocations[k].coro = on_ \o message_new
            /\ invocations[k].args = tasks[k].args)
    /\ [][/\ (pc = "while" /\ pc' = "for") => update' = 1
          /\ is_handle =>
                /\ handled' = Append(handled, updates[update].id)
                /\ update' = update + 1
                /\ update = 1 => unstarted = {}
                /\ update > 1 => handled[Len(handled)] = updates[update - 1].id
                /\ is_dispatch =>
                    /\ updates[update].type = message_new
                    /\ tasks' = Append(tasks, [event_name |-> on_ \o message_new,
                                               args |-> <<updates[update].text>>,
                                               state |-> "PENDING"])]_vars

C24_Witness ==
    /\ Len(handled) = 2 /\ handled[1] < handled[2]
    /\ Len(tasks) = 2
    /\ Len(invocations) = 2
    /\ invocations[1].args = <<stream[handled[1]]>>
    /\ invocations[2].args = <<stream[handled[2]]>>
    /\ runs[1].handler = "running" /\ runs[2].handler = "running"


\* C27: a handler that stays suspended does not hold up the loop. Whatever
\* the handler tasks do, _run can go from the end of a batch to await lp and
\* from there on as soon as lp is done, and it can create the next poll; the
\* steps of the loop and of the polls leave the handler tasks as they are.
C27_HandlersDoNotBlock ==
    /\ []((pc = "for" /\ update > Len(updates)) => ENABLED await_lp)
    /\ []((pc = "while" /\ Len(polls) < MaxPolls) => ENABLED create_task)
    /\ []((pc = "await lp" /\ polls[lp].state \in {"done", "raised"} /\ nothing_ready)
            => ENABLED lp_done)
    /\ [][(pc' # pc \/ polls' # polls) =>
            /\ runs' = runs
            /\ invocations' = invocations
            /\ \A i \in 1..Len(tasks) : tasks'[i] = tasks[i]]_vars

\* The handler of the first message is still suspended while a later poll
\* has returned the second message and its handler has started.
C27_Witness ==
    /\ Len(tasks) = 2
    /\ runs[1].handler = "running" /\ runs[2].handler = "running"
    /\ Len(polls) = 3
    /\ polls[1].result.updates = <<envelope(1)>>
    /\ polls[2].result.updates = <<envelope(2)>>
    /\ handled = <<1, 2>>


\* ------------------------------------------------------------------------
\* Properties of the waiter registry, continued
\* ------------------------------------------------------------------------

\* C28: an entry is resolved at most once. A future that is finished or
\* cancelled never changes again, no call of dispatch meets the
\* InvalidStateError of a second resolution, and the future of every entry
\* still in the registry is pending or cancelled.
C28_ResolvedAtMostOnce ==
    /\ [](\A w \in entries(_listeners) : future[w].state \in {"PENDING", "CANCELLED"})
    /\ [][/\ \A w \in WaiterIds :
                future[w].state \in {"FINISHED", "CANCELLED"} => future'[w] = future[w]
          /\ is_dispatch => ~last'.raised]_vars

\* Entry 1 was resolved by the first dispatch and left the registry; entry 2
\* timed out and is still there, cancelled, when the second dispatch of
\* another event leaves both as they are.
C28_Witness ==
    /\ ndispatch = 2
    /\ future[1].state = "FINISHED" /\ 1 \notin entries(_listeners)
    /\ future[2].state = "CANCELLED" /\ 2 \in entries(_listeners)

\* C29: no name of the registry maps to an empty list; a dispatch that
\* removes every waiter of its event drops the name.
C29_NoEmptyList ==
    /\ [](\A k \in DOMAIN _listeners : Len(_listeners[k]) > 0)
    /\ [][(is_dispatch /\ last'.event \in DOMAIN _listeners
            /\ Len(last'.removed) = Len(_listeners[last'.event])) =>
                last'.event \notin DOMAIN _listeners']_vars

\* A dispatch removed the only waiter of its event and the name with it,
\* while the waiter of another event stays.
C29_Witness ==
    /\ ndispatch >= 1
    /\ Len(last.removed) = 1
    /\ last.event \notin DOMAIN _listeners
    /\ DOMAIN _listeners # {}

in_flight == {p \in 1..Len(polls) : polls[p].state \notin {"done", "raised"}}

\* C31 (as stated): at any moment at most one poll created by the loop is in
\* flight, and the loop creates a poll only when every earlier poll has
\* returned or raised.
C31_OnePollInFlight ==
    /\ [](Cardinality(in_flight) <= 1)
    /\ [][Len(polls') > Len(polls) => in_flight = {}]_vars


\* C32: a waiter is registered by the call of wait_for itself, not by the
\* first await of the handle it returns: the step of the call leaves the new
\* entry, pending, at the end of the list of its event, and a dispatch of a
\* matching event resolves a waiter whose handle was never awaited; awaiting
\* the handle afterwards finds the result and the timeout never strikes it.
C32_RegisteredAtCall ==
    [][/\ is_wait_for =>
            \A w \in registered' \ registered :
                /\ handle'[w] = "created"
                /\ future'[w] = PendingFuture
                /\ listeners_of(_listeners', lower(waited')) =
                        Append(listeners_of(_listeners, lower(waited')), w)
       /\ is_dispatch =>
            \A w \in Range(listeners_of(_listeners, last'.event)) :
                (handle[w] = "created" /\ future[w].state = "PENDING"
                    /\ satisfied(w, last'.args)) =>
                        /\ future'[w].state = "FINISHED"
                        /\ future'[w].result = delivered(last'.args)
       /\ \A w \in WaiterIds :
            future[w].state = "FINISHED" =>
                /\ future'[w] = future[w]
                /\ handle'[w] \in {handle[w], "awaiting"}]_vars

\* The first waiter was resolved by a dispatch before its handle was ever
\* awaited; the second one, whose handle is awaited, was resolved by the
\* same dispatch.
C32_Witness ==
    /\ future[1].state = "FINISHED" /\ handle[1] = "created"
    /\ future[2].state = "FINISHED" /\ handle[2] = "awaiting"
    /\ ndispatch = 1
    /\ last.removed = <<1, 2>>


\* C33: one call of general_request makes at most 5 attempts; the first
\* attempt that succeeds ends the call and nothing is attempted or waited
\* for afterwards; after the k-th failed attempt (k = 0..4) the call waits
\* 2k+1; after the fifth failure and its wait the call ends by returning
\* None, which longpoll meets as the AttributeError of None.keys(), and not
\* by raising the error of the attempt.
C33_FiveAttempts ==
    /\ [](/\ tries <= 5
          /\ Len(errors) <= 5
          /\ Len(slept) = Len(errors)
          /\ \A k \in 0..4 : k < Len(slept) => slept[k + 1] = 2 * k + 1)
    /\ [][/\ errors' # errors =>
                /\ tries \in 0..4
                /\ Len(errors) = tries
                /\ lp_pc' = "sleep"
          /\ (lp_pc = "request" /\ lp_pc' \in {"returned", "get_longpoll_server"}) =>
                /\ errors' = errors
                /\ slept' = slept
          /\ lp_pc \in {"returned", "raised", "get_longpoll_server"} =>
                /\ tries' = tries
                /\ errors' = errors
                /\ slept' = slept
          /\ (lp_pc = "sleep" /\ tries < 4) => lp_pc' = "request"
          /\ (lp_pc = "sleep" /\ tries = 4) =>
                /\ slept = <<1, 3, 5, 7, 9>>
                /\ lp_pc' = "raised"
                /\ lp_result' = Raised("AttributeError")]_vars

\* Five attempts failed, the call waited 1, 3, 5, 7 and 9 and returned None.
C33_Witness ==
    /\ tries = 5
    /\ Len(errors) = 5
    /\ slept = <<1, 3, 5, 7, 9>>
    /\ lp_pc = "raised"
    /\ lp_result = Raised("AttributeError")

====
